---- MODULE Spec2Model ----
(***************************************************************************)
(* A model of the RedditAPI helper of src/src/lib/reddit-api.ts: one       *)
(* instance that owns a lazily launched headless browser and page, caches  *)
(* one OAuth token, and sends every HTTP call through a script evaluated   *)
(* in the page.  Each action is one segment of an async method, from the   *)
(* resumption of one await to the suspension at the next.                  *)
(* The callers of the helper are modelled with it: getRedditPosts and the  *)
(* BangladeshSubredditPage component that renders its posts, and the       *)
(* testRedditAPI script of src/src/lib/test-reddit-api.ts.                 *)
(***************************************************************************)
EXTENDS Integers, Sequences, FiniteSets, TLC

VARIABLES
    now,          \* Date.now(), in milliseconds
    browser,      \* this.browser: NoBrowser (null) or the id of a launched browser
    page,         \* this.page: NoPage (null) or the id of a created page
    tokenInfo,    \* this.tokenInfo
    launched,     \* number of browsers puppeteer.launch has started so far
    openBrowsers, \* ids of the browser processes that are running
    pageBrowser,  \* pageBrowser[i]: the browser page i was created in
    setupPages,   \* ids of the pages of running browsers on which setupPage has completed
    issued,       \* number of access tokens the token endpoint has issued
    call,         \* call[p]: the call caller p is running, or ran last
    caller        \* the function that owns the instance: getRedditPosts or testRedditAPI

vars == <<now, browser, page, tokenInfo, launched, openBrowsers, pageBrowser,
          setupPages, issued, call, caller>>

----------------------------------------------------------------------------
(* Bounds of the model *)

MaxTicks == 2
MaxLaunches == 2
MaxPages == 2
MaxIssued == 2
MaxInvocations == 2
MaxPosts == 2

----------------------------------------------------------------------------
(* Program constants *)

NoBrowser == 0
NoPage == 0
NaN == 0 - 1

TOKEN_REFRESH_BUFFER == 60 * 60 * 1000

\* The clock advances in steps of half the refresh buffer, so that a cached
\* expiry can lie below, on and above "now + buffer".
Tick == TOKEN_REFRESH_BUFFER \div 2

\* expires_in values (seconds) the token endpoint may answer with.
ExpiresInValues == {3600, 7200}

\* The callers of the instance.  The serial caller issues one call at a time,
\* awaiting each before the next.
Procs == {"a", "b"}
SerialProcs == {"a"}

----------------------------------------------------------------------------
(* Strings *)

Digit(d) ==
    CASE d = 0 -> "0" [] d = 1 -> "1" [] d = 2 -> "2" [] d = 3 -> "3"
      [] d = 4 -> "4" [] d = 5 -> "5" [] d = 6 -> "6" [] d = 7 -> "7"
      [] d = 8 -> "8" [] d = 9 -> "9"

RECURSIVE NumberToString(_)
\* Number.prototype.toString() / template-literal conversion of a
\* non-negative integer.
NumberToString(n) ==
    IF n < 10 THEN Digit(n) ELSE NumberToString(n \div 10) \o Digit(n % 10)

Contains(s, sub) ==
    \E i \in 1..(Len(s) - Len(sub) + 1) : SubSeq(s, i, i + Len(sub) - 1) = sub

RECURSIVE IndexFrom(_, _, _)
\* The first position from i on at which the character ch occurs in s, 0
\* when there is none.
IndexFrom(s, ch, i) ==
    IF i > Len(s) THEN 0
    ELSE IF SubSeq(s, i, i) = ch THEN i
    ELSE IndexFrom(s, ch, i + 1)

IndexOf(s, ch) == IndexFrom(s, ch, 1)

\* The text of s before and after the first occurrence of the character ch
\* (all of s, and "", when ch does not occur).
Before(s, ch) ==
    LET i == IndexOf(s, ch) IN IF i = 0 THEN s ELSE SubSeq(s, 1, i - 1)

After(s, ch) ==
    LET i == IndexOf(s, ch) IN IF i = 0 THEN "" ELSE SubSeq(s, i + 1, Len(s))

StartsWith(s, prefix) == Len(s) >= Len(prefix) /\ SubSeq(s, 1, Len(prefix)) = prefix

EndsWith(s, suffix) ==
    Len(s) >= Len(suffix) /\ SubSeq(s, Len(s) - Len(suffix) + 1, Len(s)) = suffix

IsDigit(c) == c \in {"0", "1", "2", "3", "4", "5", "6", "7", "8", "9"}

DigitValue(c) ==
    CASE c = "0" -> 0 [] c = "1" -> 1 [] c = "2" -> 2 [] c = "3" -> 3
      [] c = "4" -> 4 [] c = "5" -> 5 [] c = "6" -> 6 [] c = "7" -> 7
      [] c = "8" -> 8 [] c = "9" -> 9

RECURSIVE IsDigits(_)
IsDigits(s) ==
    IF Len(s) = 1 THEN IsDigit(s)
    ELSE Len(s) > 1 /\ IsDigit(SubSeq(s, 1, 1)) /\ IsDigits(SubSeq(s, 2, Len(s)))

RECURSIVE ParseNumber(_)
\* The number a JSON text of digits denotes.
ParseNumber(s) ==
    IF Len(s) = 1 THEN DigitValue(s)
    ELSE (ParseNumber(SubSeq(s, 1, Len(s) - 1)) * 10) + DigitValue(SubSeq(s, Len(s), Len(s)))

----------------------------------------------------------------------------
(* JSON and the responses the remote endpoints may give *)

NoValue == [none |-> TRUE]

\* Body of a successful answer of the token endpoint.
TokenBody(tok, exp) ==
    "{\"access_token\":\"" \o tok \o "\",\"expires_in\":" \o NumberToString(exp) \o "}"

AccessToken(n) == "token" \o NumberToString(n)

TokenBodies(n) == {TokenBody(AccessToken(n), e) : e \in ExpiresInValues}

\* A well-formed JSON answer that carries no token (Reddit answers a wrong
\* password this way), and a body that is not JSON.
GrantErrorBody == "{\"error\":\"invalid_grant\"}"
ListingBody == "{\"kind\":\"Listing\"}"
HtmlBody == "<html>"

ApiBodies == {ListingBody, HtmlBody}
Statuses == {200, 299, 300}
TokenStatuses == {200, 401}

\* The posts of a listing, with the fields of a post the page reads that the
\* properties are about.  A child of a listing is { data: post }.
Post(id, selftext) == [data |-> [id |-> id, selftext |-> selftext]]

ListedPosts == {Post("p1", ""), Post("p2", "hi")}

RECURSIVE ListsOf(_, _)
\* The lists of at most n elements of S.
ListsOf(S, n) ==
    IF n = 0 THEN {<<>>}
    ELSE ListsOf(S, n - 1)
             \cup {Append(l, x) : l \in {m \in ListsOf(S, n - 1) : Len(m) = n - 1}, x \in S}

PostLists == ListsOf(ListedPosts, MaxPosts)

PostJson(child) ==
    "{\"data\":{\"id\":\"" \o child.data.id \o "\",\"selftext\":\""
        \o child.data.selftext \o "\"}}"

RECURSIVE ChildrenJson(_)
ChildrenJson(children) ==
    IF children = <<>> THEN ""
    ELSE IF Len(children) = 1 THEN PostJson(children[1])
    ELSE PostJson(children[1]) \o "," \o ChildrenJson(Tail(children))

\* Body of an answer of the listing endpoint that carries the given posts.
ListingJson(children) == "{\"data\":{\"children\":[" \o ChildrenJson(children) \o "]}}"

PostListingBodies == {ListingJson(children) : children \in PostLists}

\* JSON.parse of the text of a token answer: an object with a string
\* access_token followed by a number expires_in.
ParseTokenBody(text) ==
    LET rest == SubSeq(text, 18, Len(text))
        tok == Before(rest, "\"")
        tail == After(rest, "\"")
        digits == SubSeq(tail, 15, Len(tail) - 1)
    IN  IF StartsWith(tail, ",\"expires_in\":") /\ EndsWith(tail, "}") /\ IsDigits(digits)
        THEN [ok |-> TRUE,
              value |-> [access_token |-> tok, expires_in |-> ParseNumber(digits)]]
        ELSE [ok |-> FALSE, value |-> NoValue]

\* JSON.parse: [ok |-> TRUE, value |-> v], or [ok |-> FALSE] when it throws
\* a SyntaxError.
JSONParse(text) ==
    IF text = ListingBody
    THEN [ok |-> TRUE, value |-> [kind |-> "Listing"]]
    ELSE IF text = GrantErrorBody
    THEN [ok |-> TRUE, value |-> [error |-> "invalid_grant"]]
    ELSE IF text = HtmlBody \/ text = ""
    THEN [ok |-> FALSE, value |-> NoValue]
    ELSE IF StartsWith(text, "{\"access_token\":\"")
    THEN ParseTokenBody(text)
    ELSE IF StartsWith(text, "{\"data\":{\"children\":[") /\ text \in PostListingBodies
    THEN [ok |-> TRUE,
          value |-> [data |-> [children |->
                       CHOOSE children \in PostLists : text = ListingJson(children)]]]
    ELSE [ok |-> FALSE, value |-> NoValue]

\* What the promise created in the page does when the XHR's load event fires.
TokenOnLoad(status, responseText) ==
    IF status >= 200 /\ status < 300
    THEN IF JSONParse(responseText).ok
         THEN [kind |-> "resolve", value |-> JSONParse(responseText).value, message |-> ""]
         ELSE [kind |-> "throw", value |-> NoValue, message |-> ""]
    ELSE [kind |-> "reject", value |-> NoValue,
          message |-> "HTTP " \o NumberToString(status) \o ": " \o responseText]

\* The load handler with the upper bound of the status test off by one.
RequestOnLoadUpTo300(status, responseText) ==
    IF status >= 200 /\ status <= 300
    THEN IF JSONParse(responseText).ok
         THEN [kind |-> "resolve", value |-> JSONParse(responseText).value, message |-> ""]
         ELSE [kind |-> "throw", value |-> NoValue, message |-> ""]
    ELSE [kind |-> "reject", value |-> NoValue,
          message |-> "HTTP " \o NumberToString(status) \o ": " \o responseText]

RequestOnLoad(status, responseText) ==
    IF status >= 200 /\ status < 300
    THEN IF JSONParse(responseText).ok
         THEN [kind |-> "resolve", value |-> JSONParse(responseText).value, message |-> ""]
         ELSE [kind |-> "throw", value |-> NoValue, message |-> ""]
    ELSE [kind |-> "reject", value |-> NoValue,
          message |-> "HTTP " \o NumberToString(status) \o ": " \o responseText]

\* xhr.onerror
OnError == [kind |-> "reject", value |-> NoValue, message |-> "Network request failed"]

----------------------------------------------------------------------------
(* getRecentPosts: the listing endpoint *)

\* application/x-www-form-urlencoded serialisation of one character, for the
\* alphabet the inputs below are written in: letters, digits and "_" are
\* kept, a space becomes "+", "&" and "=" are percent-encoded.
EncodeChar(c) ==
    CASE c = " " -> "+"
      [] c = "&" -> "%26"
      [] c = "=" -> "%3D"
      [] OTHER -> c

\* A serialisation that writes every character as it is.
FormUrlEncodeRaw(s) == s

RECURSIVE FormUrlEncode(_)
FormUrlEncode(s) ==
    IF s = "" THEN ""
    ELSE EncodeChar(SubSeq(s, 1, 1)) \o FormUrlEncode(SubSeq(s, 2, Len(s)))

RECURSIVE QueryToString(_)
\* URLSearchParams.prototype.toString() of a list of <<name, value>> pairs.
QueryToString(params) ==
    IF params = <<>> THEN ""
    ELSE LET first == FormUrlEncode(params[1][1]) \o "=" \o FormUrlEncode(params[1][2])
         IN  IF Len(params) = 1 THEN first
             ELSE first \o "&" \o QueryToString(Tail(params))

\* An options object is a record that holds the keys the caller gave.
\* The limit default applied to every falsy limit (`options.limit || 25`).
OptLimitOrDefault(options) ==
    IF "limit" \in DOMAIN options /\ options.limit # 0 THEN options.limit ELSE 25

OptLimit(options) == IF "limit" \in DOMAIN options THEN options.limit ELSE 25
OptSort(options) == IF "sort" \in DOMAIN options THEN options.sort ELSE "hot"
OptTime(options) == IF "time" \in DOMAIN options THEN options.time ELSE "day"

ListingPath(subreddit, options) ==
    IF subreddit # ""
    THEN "/r/" \o subreddit \o "/" \o OptSort(options) \o ".json"
    ELSE "/" \o OptSort(options) \o ".json"

ListingQuery(options) ==
    <<  <<"limit", NumberToString(OptLimit(options))>>, <<"t", OptTime(options)>> >>
    \o (IF "after" \in DOMAIN options /\ options.after # ""
        THEN << <<"after", options.after>> >>
        ELSE <<>>)

ListingEndpoint(subreddit, options) ==
    ListingPath(subreddit, options) \o "?" \o QueryToString(ListingQuery(options))

\* The arguments of the call the test script makes (test-reddit-api.ts).
ScriptSubreddits == {"Bangladesh"}
ScriptOptions == {[limit |-> 25, sort |-> "hot"]}

\* Every combination of given and omitted options.
NoOptions == [x \in {} |-> 0]
Subreddits == {"", "Bangladesh"}
Limits == {0, 5, 25, 100}
Sorts == {"hot", "new", "top", "rising"}
Times == {"hour", "day", "week", "month", "year", "all"}
Afters == {"", "t3_abc", "a b&c=d"}

OptionsWith(keys) ==
    { [k \in keys |-> CASE k = "limit" -> l [] k = "sort" -> st
                        [] k = "time" -> t [] k = "after" -> a] :
        l \in Limits, st \in Sorts, t \in Times, a \in Afters }

AllOptions == UNION { OptionsWith(keys) : keys \in SUBSET {"limit", "sort", "time", "after"} }

UserInfoEndpoint == "/api/v1/me"

----------------------------------------------------------------------------
(* The instance and its calls *)

\* this.tokenInfo = null
NoToken == [null |-> TRUE, accessToken |-> "null", expiresAt |-> NaN]

NoResponse == [status |-> 0, body |-> ""]

\* A caller that has not called yet.  The fields from sampled on record what
\* the call did; the code does not read them.
IdleCall ==
    [ pc          |-> "idle",
      entry       |-> "none",      \* the public method that was called
      subreddit   |-> "",          \* getRecentPosts: its arguments
      options     |-> NoOptions,
      endpoint    |-> "",          \* makeRequest: its endpoint
      ctx         |-> "none",      \* initBrowser is running for "token" or "request"
      lp          |-> NoPage,      \* the page initBrowser returned
      accessToken |-> "",          \* makeRequest's local accessToken
      fresh       |-> NoToken,     \* the TokenInfo getNewAccessToken returned
      onBrowser   |-> NoBrowser,   \* initBrowser: the browser newPage() was called on
      closing     |-> NoBrowser,   \* cleanup: the browser close() was called on
      afterCleanup |-> FALSE,      \* the call before this one was cleanup
      sampled     |-> 0,           \* ensureValidToken's const now
      cached      |-> NoToken,     \* this.tokenInfo when ensureValidToken read it
      exchanges   |-> 0,           \* token requests sent
      requests    |-> 0,           \* API requests sent
      launches    |-> 0,           \* browsers launched
      newPages    |-> 0,           \* pages created
      sentToken   |-> "",          \* bearer token of the API request
      sentExpiry  |-> NaN,         \* this.tokenInfo.expiresAt when it was sent
      evalPage    |-> NoPage,      \* page the API request was evaluated in
      tokenResp   |-> NoResponse,  \* what the token XHR loaded
      receivedAt  |-> NaN,         \* Date.now() when the token response came back
      response    |-> NoResponse,  \* what the API XHR loaded
      failure     |-> "none",      \* kind of failure met
      value       |-> NoValue,     \* settled: the value it resolved with
      message     |-> "" ]         \* settled: the message of the Error it rejected with

\* The credential variables, each unset, set to the empty string, or set.
RequiredEnvVars ==
    <<"REDDIT_CLIENT_ID", "REDDIT_SECRET", "REDDIT_USERNAME", "REDDIT_PASSWORD">>

EnvNames == {RequiredEnvVars[i] : i \in 1..Len(RequiredEnvVars)}

Environments == [EnvNames -> {"unset", "empty", "set"}]

AllSet == [v \in EnvNames |-> "set"]

\* The caller before it runs.  The fields from base on record what it did;
\* the code does not read them.
IdleCaller ==
    [ pc          |-> "idle",
      kind        |-> "none",      \* "page": getRedditPosts, "script": testRedditAPI
      posts       |-> NoValue,     \* const posts / hotPosts
      result      |-> <<>>,        \* what getRedditPosts returned
      cards       |-> <<>>,        \* the cards the page rendered
      base        |-> 0,           \* browsers launched before the instance was constructed
      outcome     |-> "none",      \* how getRecentPosts settled
      cleanups    |-> 0,           \* cleanup invocations on the instance
      invocations |-> 0,           \* runs of the caller so far
      env         |-> AllSet,      \* process.env of the run
      constructed |-> FALSE,       \* new RedditAPI(...) was evaluated
      exitCode    |-> 0,           \* the status process.exit was called with
      reported    |-> "" ]         \* what the script printed about missing variables

Settled(p) == call[p].pc \in {"resolved", "rejected"}
NotRunning(p) == call[p].pc = "idle" \/ Settled(p)

Init ==
    /\ now = 0
    /\ browser = NoBrowser
    /\ page = NoPage
    /\ tokenInfo = NoToken
    /\ launched = 0
    /\ openBrowsers = {}
    /\ pageBrowser = <<>>
    /\ setupPages = {}
    /\ issued = 0
    /\ call = [p \in Procs |-> IdleCall]
    /\ caller = IdleCaller

PageAlive(pg) == pg # NoPage /\ pageBrowser[pg] \in openBrowsers

\* NeedsRefresh with a strict comparison.
NeedsRefreshStrict(info, t) ==
    info.null \/ (info.expiresAt # NaN /\ t + TOKEN_REFRESH_BUFFER > info.expiresAt)

\* NeedsRefresh with the buffer left out of the comparison.
NeedsRefreshNoBuffer(info, t) ==
    info.null \/ (info.expiresAt # NaN /\ t >= info.expiresAt)

\* `now + TOKEN_REFRESH_BUFFER >= expiresAt`, false when expiresAt is NaN.
NeedsRefresh(info, t) ==
    info.null \/ (info.expiresAt # NaN /\ t + TOKEN_REFRESH_BUFFER >= info.expiresAt)

Reject(c, kind, msg) == [c EXCEPT !.pc = "rejected", !.failure = kind, !.message = msg]

\* initBrowser without its `if (!this.browser)` guard.
InitBrowserAlwaysLaunch(c, context) ==
    [c EXCEPT !.ctx = context, !.pc = "launch"]

\* initBrowser up to its first await: where the call is suspended next.
InitBrowserEnter(c, context) ==
    IF browser = NoBrowser
    THEN [c EXCEPT !.ctx = context, !.pc = "launch"]
    ELSE IF page = NoPage
    THEN [c EXCEPT !.ctx = context, !.pc = "newPage", !.onBrowser = browser]
    ELSE [c EXCEPT !.ctx = context, !.pc = "initReturn", !.lp = page]

\* ensureValidToken that exchanges a token on every call.
EnsureValidTokenAlways(c) ==
    InitBrowserEnter([c EXCEPT !.sampled = now, !.cached = tokenInfo], "token")

\* ensureValidToken up to its first await, entered from makeRequest.
EnsureValidTokenEnter(c) ==
    LET c1 == [c EXCEPT !.sampled = now, !.cached = tokenInfo]
    IN  IF NeedsRefresh(tokenInfo, now)
        THEN InitBrowserEnter(c1, "token")
        ELSE [c1 EXCEPT !.pc = "ensureReturn", !.accessToken = tokenInfo.accessToken]

MakeRequestEnter(p, how, sub, opts, ep) ==
    /\ NotRunning(p)
    /\ call' = [call EXCEPT ![p] =
           EnsureValidTokenEnter([IdleCall EXCEPT !.entry = how, !.subreddit = sub,
                                                  !.options = opts, !.endpoint = ep,
                                                  !.afterCleanup = (call[p].entry = "cleanup")])]
    /\ UNCHANGED <<now, browser, page, tokenInfo, launched, openBrowsers,
                   pageBrowser, setupPages, issued>>

GetRecentPostsOf(p, subs, optss) ==
    /\ \E sub \in subs, opts \in optss :
           MakeRequestEnter(p, "getRecentPosts", sub, opts, ListingEndpoint(sub, opts))
    /\ UNCHANGED caller

GetRecentPosts(p) == GetRecentPostsOf(p, ScriptSubreddits, ScriptOptions)

GetUserInfo(p) ==
    /\ MakeRequestEnter(p, "getUserInfo", "", NoOptions, UserInfoEndpoint)
    /\ UNCHANGED caller

----------------------------------------------------------------------------
(* initBrowser *)

\* puppeteer.launch resolved: this.browser is set and initBrowser goes on to
\* its page check.
Launch(p) ==
    /\ call[p].pc = "launch"
    /\ launched < MaxLaunches
    /\ LET b == launched + 1
           c == [call[p] EXCEPT !.launches = @ + 1]
       IN  /\ launched' = b
           /\ openBrowsers' = openBrowsers \cup {b}
           /\ browser' = b
           /\ call' = [call EXCEPT ![p] =
                  IF page = NoPage
                  THEN [c EXCEPT !.pc = "newPage", !.onBrowser = b]
                  ELSE [c EXCEPT !.pc = "initReturn", !.lp = page]]
    /\ UNCHANGED <<now, page, tokenInfo, pageBrowser, setupPages, issued, caller>>

\* puppeteer.launch rejected.
LaunchFails(p) ==
    /\ call[p].pc = "launch"
    /\ call' = [call EXCEPT ![p] = Reject(@, "launch", "Failed to launch the browser process")]
    /\ UNCHANGED <<now, browser, page, tokenInfo, launched, openBrowsers,
                   pageBrowser, setupPages, issued, caller>>

\* browser.newPage resolved: this.page is set and setupPage(this.page) starts.
NewPage(p) ==
    /\ call[p].pc = "newPage"
    /\ call[p].onBrowser \in openBrowsers
    /\ Len(pageBrowser) < MaxPages
    /\ LET pg == Len(pageBrowser) + 1
       IN  /\ pageBrowser' = Append(pageBrowser, call[p].onBrowser)
           /\ page' = pg
           /\ call' = [call EXCEPT ![p] = [@ EXCEPT !.pc = "setup", !.lp = pg,
                                                     !.newPages = @ + 1]]
    /\ UNCHANGED <<now, browser, tokenInfo, launched, openBrowsers, setupPages, issued,
                   caller>>

\* browser.newPage rejected.
NewPageFails(p) ==
    /\ call[p].pc = "newPage"
    /\ call' = [call EXCEPT ![p] = Reject(@, "newPage", "Protocol error (Target.createTarget)")]
    /\ UNCHANGED <<now, browser, page, tokenInfo, launched, openBrowsers,
                   pageBrowser, setupPages, issued, caller>>

\* setupPage ran to its end: viewport, user agent, interception and both
\* handlers are in place; initBrowser returns { browser, page } of the fields.
SetupPage(p) ==
    /\ call[p].pc = "setup"
    /\ IF PageAlive(call[p].lp)
       THEN /\ setupPages' = setupPages \cup {call[p].lp}
            /\ call' = [call EXCEPT ![p] = [@ EXCEPT !.pc = "initReturn", !.lp = page]]
       ELSE /\ setupPages' = setupPages
            /\ call' = [call EXCEPT ![p] = Reject(@, "closed", "Target closed")]
    /\ UNCHANGED <<now, browser, page, tokenInfo, launched, openBrowsers,
                   pageBrowser, issued, caller>>

\* One of setupPage's awaited calls rejected: this.page stays set.
SetupPageFails(p) ==
    /\ call[p].pc = "setup"
    /\ call' = [call EXCEPT ![p] = Reject(@, "setupPage", "Protocol error (Emulation)")]
    /\ UNCHANGED <<now, browser, page, tokenInfo, launched, openBrowsers,
                   pageBrowser, setupPages, issued, caller>>

\* makeRequest evaluating its script in the page without navigating first.
InitReturnNoGoto(p) ==
    /\ call[p].pc = "initReturn"
    /\ call' = [call EXCEPT ![p] =
           IF call[p].lp = NoPage
           THEN Reject(@, "closed", "Cannot read properties of null (reading 'goto')")
           ELSE IF call[p].ctx = "token"
           THEN [@ EXCEPT !.pc = "goto"]
           ELSE [@ EXCEPT !.pc = "requestXhr", !.requests = @ + 1,
                          !.sentToken = call[p].accessToken,
                          !.sentExpiry = tokenInfo.expiresAt,
                          !.evalPage = call[p].lp]]
    /\ UNCHANGED <<now, browser, page, tokenInfo, launched, openBrowsers,
                   pageBrowser, setupPages, issued, caller>>

\* The caller of initBrowser resumes with { page } and calls
\* page.goto('about:blank').
InitReturn(p) ==
    /\ call[p].pc = "initReturn"
    /\ call' = [call EXCEPT ![p] =
           IF call[p].lp = NoPage
           THEN Reject(@, "closed", "Cannot read properties of null (reading 'goto')")
           ELSE [@ EXCEPT !.pc = "goto"]]
    /\ UNCHANGED <<now, browser, page, tokenInfo, launched, openBrowsers,
                   pageBrowser, setupPages, issued, caller>>

\* A script of call c is running in page pg: its XHR is in flight, or its
\* promise was left pending.
Evaluating(c, pg) == c.pc \in {"tokenXhr", "requestXhr", "hung"} /\ c.lp = pg

\* page.goto settled: it rejects when the browser of the page has ended; on
\* success page.evaluate is called and the script sends its XHR, the token
\* request or the API request.  The new document replaces the one a script
\* of another call was running in: the page.evaluate of that call rejects.
Goto(p) ==
    /\ call[p].pc = "goto"
    /\ call' = [q \in Procs |->
           IF q = p
           THEN IF ~PageAlive(call[p].lp)
                THEN Reject(call[p], "closed", "Target closed")
                ELSE IF call[p].ctx = "token"
                THEN [call[p] EXCEPT !.pc = "tokenXhr", !.exchanges = @ + 1]
                ELSE [call[p] EXCEPT !.pc = "requestXhr", !.requests = @ + 1,
                                     !.sentToken = call[p].accessToken,
                                     !.sentExpiry = tokenInfo.expiresAt,
                                     !.evalPage = call[p].lp]
           ELSE IF PageAlive(call[p].lp) /\ Evaluating(call[q], call[p].lp)
           THEN Reject(call[q], "navigated", "Execution context was destroyed")
           ELSE call[q]]
    /\ UNCHANGED <<now, browser, page, tokenInfo, launched, openBrowsers,
                   pageBrowser, setupPages, issued, caller>>

----------------------------------------------------------------------------
(* getNewAccessToken and ensureValidToken *)

\* A TokenInfo whose expiry adds expires_in as if it were milliseconds.
NewTokenInfoSeconds(response, t) ==
    [ null        |-> FALSE,
      accessToken |-> IF "access_token" \in DOMAIN response
                      THEN response.access_token ELSE "undefined",
      expiresAt   |-> IF "expires_in" \in DOMAIN response
                      THEN t + response.expires_in ELSE NaN ]

\* The TokenInfo getNewAccessToken builds from the parsed response.  A field
\* the response lacks is undefined, and undefined * 1000 is NaN.
NewTokenInfo(response, t) ==
    [ null        |-> FALSE,
      accessToken |-> IF "access_token" \in DOMAIN response
                      THEN response.access_token ELSE "undefined",
      expiresAt   |-> IF "expires_in" \in DOMAIN response
                      THEN t + (response.expires_in * 1000) ELSE NaN ]

\* A rejected token exchange that is tried again.
AfterTokenEvaluateRetry(c, settle) ==
    CASE settle.kind = "resolve" ->
             [c EXCEPT !.pc = "tokenReturn", !.fresh = NewTokenInfo(settle.value, now),
                       !.receivedAt = now]
      [] settle.kind = "reject" ->
             [c EXCEPT !.pc = "goto"]
      [] settle.kind = "throw" ->
             [c EXCEPT !.pc = "hung", !.failure = "parse"]

\* What the promise in the page did becomes the next state of the call that
\* awaits page.evaluate for the token.
AfterTokenEvaluate(c, settle) ==
    CASE settle.kind = "resolve" ->
             [c EXCEPT !.pc = "tokenReturn", !.fresh = NewTokenInfo(settle.value, now),
                       !.receivedAt = now]
      [] settle.kind = "reject" ->
             [c EXCEPT !.pc = "rejected", !.message = settle.message]
      [] settle.kind = "throw" ->
             [c EXCEPT !.pc = "hung", !.failure = "parse"]

\* The token XHR fires load.
TokenLoad(p) ==
    /\ call[p].pc = "tokenXhr"
    /\ \E status \in TokenStatuses,
          body \in TokenBodies(issued + 1) \cup {GrantErrorBody, HtmlBody} :
        LET grants == body \in TokenBodies(issued + 1)
        IN  /\ grants => (status = 200 /\ issued < MaxIssued)
            /\ issued' = IF grants THEN issued + 1 ELSE issued
            /\ call' = [call EXCEPT ![p] =
                   AfterTokenEvaluate(
                       [@ EXCEPT !.tokenResp = [status |-> status, body |-> body],
                                 !.failure = IF status >= 200 /\ status < 300
                                             THEN "none" ELSE "http"],
                       TokenOnLoad(status, body))]
    /\ UNCHANGED <<now, browser, page, tokenInfo, launched, openBrowsers,
                   pageBrowser, setupPages, caller>>

\* The token XHR fires error.
TokenError(p) ==
    /\ call[p].pc = "tokenXhr"
    /\ call' = [call EXCEPT ![p] =
           AfterTokenEvaluate([@ EXCEPT !.failure = "network"], OnError)]
    /\ UNCHANGED <<now, browser, page, tokenInfo, launched, openBrowsers,
                   pageBrowser, setupPages, issued, caller>>

\* ensureValidToken that keeps a token another call has cached meanwhile.
TokenReturnFirstWins(p) ==
    /\ call[p].pc = "tokenReturn"
    /\ tokenInfo' = IF tokenInfo.null THEN call[p].fresh ELSE tokenInfo
    /\ call' = [call EXCEPT ![p] = [@ EXCEPT !.pc = "ensureReturn",
                                              !.accessToken = call[p].fresh.accessToken]]
    /\ UNCHANGED <<now, browser, page, launched, openBrowsers, pageBrowser,
                   setupPages, issued, caller>>

\* ensureValidToken storing the new TokenInfo and returning the access token
\* it had read before.
TokenReturnOldToken(p) ==
    /\ call[p].pc = "tokenReturn"
    /\ tokenInfo' = call[p].fresh
    /\ call' = [call EXCEPT ![p] = [@ EXCEPT !.pc = "ensureReturn",
                                              !.accessToken = call[p].cached.accessToken]]
    /\ UNCHANGED <<now, browser, page, launched, openBrowsers, pageBrowser,
                   setupPages, issued, caller>>

\* ensureValidToken resumes: it stores the new TokenInfo and returns its
\* accessToken.
TokenReturn(p) ==
    /\ call[p].pc = "tokenReturn"
    /\ tokenInfo' = call[p].fresh
    /\ call' = [call EXCEPT ![p] = [@ EXCEPT !.pc = "ensureReturn",
                                              !.accessToken = call[p].fresh.accessToken]]
    /\ UNCHANGED <<now, browser, page, launched, openBrowsers, pageBrowser,
                   setupPages, issued, caller>>

----------------------------------------------------------------------------
(* makeRequest *)

\* makeRequest resumes with the access token and calls initBrowser.
EnsureReturn(p) ==
    /\ call[p].pc = "ensureReturn"
    /\ call' = [call EXCEPT ![p] = InitBrowserEnter(@, "request")]
    /\ UNCHANGED <<now, browser, page, tokenInfo, launched, openBrowsers,
                   pageBrowser, setupPages, issued, caller>>

AfterRequestEvaluate(c, settle) ==
    CASE settle.kind = "resolve" ->
             [c EXCEPT !.pc = "resolved", !.value = settle.value]
      [] settle.kind = "reject" ->
             [c EXCEPT !.pc = "rejected", !.message = settle.message]
      [] settle.kind = "throw" ->
             [c EXCEPT !.pc = "hung", !.failure = "parse"]

\* The API XHR fires load, the body of the answer being one of bodies.
RequestLoadOf(p, bodies) ==
    /\ call[p].pc = "requestXhr"
    /\ \E status \in Statuses, body \in bodies :
        call' = [call EXCEPT ![p] =
            AfterRequestEvaluate(
                [@ EXCEPT !.response = [status |-> status, body |-> body],
                          !.failure = IF status >= 200 /\ status < 300
                                      THEN "none" ELSE "http"],
                RequestOnLoad(status, body))]
    /\ UNCHANGED <<now, browser, page, tokenInfo, launched, openBrowsers,
                   pageBrowser, setupPages, issued, caller>>

RequestLoad(p) == RequestLoadOf(p, ApiBodies)

\* The listing endpoint answers with posts, with JSON that is no listing, or
\* with text that is not JSON.
ListingLoad(p) == RequestLoadOf(p, PostListingBodies \cup ApiBodies)

\* The API XHR fires error.
RequestError(p) ==
    /\ call[p].pc = "requestXhr"
    /\ call' = [call EXCEPT ![p] =
           AfterRequestEvaluate([@ EXCEPT !.failure = "network"], OnError)]
    /\ UNCHANGED <<now, browser, page, tokenInfo, launched, openBrowsers,
                   pageBrowser, setupPages, issued, caller>>

\* A page.evaluate that no protocol timeout ends.
EvaluateForever(p) ==
    /\ call[p].pc = "hung"
    /\ FALSE
    /\ UNCHANGED vars

\* The promise in the page never settles (its load handler threw).  The code
\* sets no timeout of its own; the protocol timeout of the puppeteer release
\* the package depends on ends the wait of page.evaluate with its own error.
EvaluateTimeout(p) ==
    /\ call[p].pc = "hung"
    /\ call' = [call EXCEPT ![p] = [@ EXCEPT !.pc = "rejected",
                    !.message = "Runtime.callFunctionOn timed out"]]
    /\ UNCHANGED <<now, browser, page, tokenInfo, launched, openBrowsers,
                   pageBrowser, setupPages, issued, caller>>

----------------------------------------------------------------------------
(* cleanup *)

\* cleanup up to its await: `if (this.browser)` and the call of close().
CleanupEnter(p) ==
    /\ NotRunning(p)
    /\ call' = [call EXCEPT ![p] =
           IF browser # NoBrowser
           THEN [IdleCall EXCEPT !.entry = "cleanup", !.pc = "close", !.closing = browser]
           ELSE [IdleCall EXCEPT !.entry = "cleanup", !.pc = "resolved"]]
    /\ UNCHANGED <<now, browser, page, tokenInfo, launched, openBrowsers,
                   pageBrowser, setupPages, issued>>

Cleanup(p) == CleanupEnter(p) /\ UNCHANGED caller

\* cleanup that clears this.browser and leaves this.page.
CloseKeepsPage(p) ==
    /\ call[p].pc = "close"
    /\ openBrowsers' = openBrowsers \ {call[p].closing}
    /\ browser' = NoBrowser
    /\ setupPages' = {i \in setupPages : pageBrowser[i] \in openBrowsers'}
    /\ call' = [call EXCEPT ![p] = [@ EXCEPT !.pc = "resolved"]]
    /\ UNCHANGED <<now, page, tokenInfo, launched, pageBrowser, issued, caller>>

\* A close that ends every browser the instance has launched.
CloseEveryBrowser(p) ==
    /\ call[p].pc = "close"
    /\ openBrowsers' = {}
    /\ browser' = NoBrowser
    /\ page' = NoPage
    /\ setupPages' = {}
    /\ call' = [call EXCEPT ![p] = [@ EXCEPT !.pc = "resolved"]]
    /\ UNCHANGED <<now, tokenInfo, launched, pageBrowser, issued, caller>>

\* browser.close resolved: both references are cleared.
Close(p) ==
    /\ call[p].pc = "close"
    /\ openBrowsers' = openBrowsers \ {call[p].closing}
    /\ browser' = NoBrowser
    /\ page' = NoPage
    /\ setupPages' = {i \in setupPages : pageBrowser[i] \in openBrowsers'}
    /\ call' = [call EXCEPT ![p] = [@ EXCEPT !.pc = "resolved"]]
    /\ UNCHANGED <<now, tokenInfo, launched, pageBrowser, issued, caller>>

\* browser.close rejected, with the browser process ended or not.
CloseFails(p) ==
    /\ call[p].pc = "close"
    /\ \E ended \in BOOLEAN :
        openBrowsers' = IF ended THEN openBrowsers \ {call[p].closing} ELSE openBrowsers
    /\ setupPages' = {i \in setupPages : pageBrowser[i] \in openBrowsers'}
    /\ call' = [call EXCEPT ![p] = Reject(@, "close", "Failed to close the browser")]
    /\ UNCHANGED <<now, browser, page, tokenInfo, launched, pageBrowser, issued,
                   caller>>

----------------------------------------------------------------------------
(* The callers: getRedditPosts of the subreddit page and the testRedditAPI   *)
(* script.  Each run constructs its own RedditAPI instance.                  *)

PageOptions == [limit |-> 25, sort |-> "hot", time |-> "day"]

CallerOptions(kind) ==
    IF kind = "page" THEN PageOptions ELSE CHOOSE o \in ScriptOptions : TRUE

Finished == caller.pc \in {"returned", "rejected", "rendered"}

\* A run of a caller can start: no run is in progress.
Startable ==
    /\ caller.pc \in {"idle", "exited"} \/ Finished
    /\ caller.invocations < MaxInvocations

\* A caller that keeps using the instance of the run before.
NewRedditAPIShared(kind, env) ==
    /\ Startable
    /\ call' = [p \in Procs |-> IdleCall]
    /\ caller' = [IdleCaller EXCEPT !.pc = "constructed", !.kind = kind,
                                    !.base = launched,
                                    !.invocations = caller.invocations + 1,
                                    !.env = env, !.constructed = TRUE]
    /\ UNCHANGED <<now, browser, page, tokenInfo, launched, openBrowsers,
                   pageBrowser, setupPages, issued>>

\* `new RedditAPI(config)`: the fields of the new instance are null.  What
\* an earlier instance left running stays running.
NewRedditAPI(kind, env) ==
    /\ Startable
    /\ browser' = NoBrowser
    /\ page' = NoPage
    /\ tokenInfo' = NoToken
    /\ call' = [p \in Procs |-> IdleCall]
    /\ caller' = [IdleCaller EXCEPT !.pc = "constructed", !.kind = kind,
                                    !.base = launched,
                                    !.invocations = caller.invocations + 1,
                                    !.env = env, !.constructed = TRUE]
    /\ UNCHANGED <<now, launched, openBrowsers, pageBrowser, setupPages, issued>>

\* getRedditPosts reads the variables without testing them.
GetRedditPosts == NewRedditAPI("page", AllSet)

RECURSIVE Join(_, _)
\* Array.prototype.join
Join(names, separator) ==
    IF names = <<>> THEN ""
    ELSE IF Len(names) = 1 THEN names[1]
    ELSE names[1] \o separator \o Join(Tail(names), separator)

\* A filter that takes only an unset variable for missing.
MissingVarsUnset(env) ==
    SelectSeq(RequiredEnvVars, LAMBDA varName : env[varName] = "unset")

\* requiredEnvVars.filter(varName => !process.env[varName]): undefined and
\* the empty string are falsy.
MissingVars(env) ==
    SelectSeq(RequiredEnvVars, LAMBDA varName : env[varName] \in {"unset", "empty"})

\* console.error of the missing names and process.exit(1): the run ends.
ExitMissing(env) ==
    /\ Startable
    /\ browser' = NoBrowser
    /\ page' = NoPage
    /\ tokenInfo' = NoToken
    /\ call' = [p \in Procs |-> IdleCall]
    /\ caller' = [IdleCaller EXCEPT
           !.pc = "exited", !.kind = "script", !.base = launched,
           !.invocations = caller.invocations + 1, !.env = env,
           !.exitCode = 1,
           !.reported = "Missing required environment variables: "
                            \o Join(MissingVars(env), ", ")]
    /\ UNCHANGED <<now, launched, openBrowsers, pageBrowser, setupPages, issued>>

\* testRedditAPI up to its try block.
TestRedditAPI ==
    \E env \in Environments :
        IF Len(MissingVars(env)) > 0
        THEN ExitMissing(env)
        ELSE NewRedditAPI("script", env)

\* The caller enters its try block and calls api.getRecentPosts.
CallerGetRecentPosts(p) ==
    /\ caller.pc = "constructed"
    /\ MakeRequestEnter(p, "getRecentPosts", "Bangladesh", CallerOptions(caller.kind),
                        ListingEndpoint("Bangladesh", CallerOptions(caller.kind)))
    /\ caller' = [caller EXCEPT !.pc = "get"]

\* posts.data.children can be read.
HasChildren(value) ==
    "data" \in DOMAIN value /\ "children" \in DOMAIN value.data

\* getRecentPosts settled.  The page calls cleanup next, in its try block
\* when the call resolved and in its catch block when it rejected.  The
\* script prints the posts inside its try block (an exception of the
\* printing is caught) and calls cleanup in its finally block.
GetRecentPostsSettled(p) ==
    /\ caller.pc = "get"
    /\ Settled(p)
    /\ CleanupEnter(p)
    /\ caller' = [caller EXCEPT
           !.pc = IF caller.kind = "script" THEN "finallyCleanup"
                  ELSE IF call[p].pc = "resolved" THEN "tryCleanup"
                  ELSE "catchCleanup",
           !.posts = IF call[p].pc = "resolved" THEN call[p].value ELSE NoValue,
           !.outcome = call[p].pc,
           !.cleanups = @ + 1]

\* The cleanup of the page's try block settled.  When it resolved,
\* `return posts.data.children` is evaluated; a rejection, and the TypeError
\* of reading children of a value without data, enter the catch block, which
\* calls cleanup.
TryCleanupSettled(p) ==
    /\ caller.pc = "tryCleanup"
    /\ Settled(p)
    /\ IF call[p].pc = "resolved" /\ HasChildren(caller.posts)
       THEN /\ caller' = [caller EXCEPT !.pc = "returned",
                                        !.result = caller.posts.data.children]
            /\ UNCHANGED <<now, browser, page, tokenInfo, launched, openBrowsers,
                           pageBrowser, setupPages, issued, call>>
       ELSE /\ CleanupEnter(p)
            /\ caller' = [caller EXCEPT !.pc = "catchCleanup", !.cleanups = @ + 1]

\* The cleanup of the page's catch block settled: `return []` follows when
\* it resolved, and its rejection leaves getRedditPosts.
CatchCleanupSettled(p) ==
    /\ caller.pc = "catchCleanup"
    /\ Settled(p)
    /\ caller' = [caller EXCEPT
           !.pc = IF call[p].pc = "resolved" THEN "returned" ELSE "rejected",
           !.result = <<>>]
    /\ UNCHANGED <<now, browser, page, tokenInfo, launched, openBrowsers,
                   pageBrowser, setupPages, issued, call>>

\* The cleanup of the script's finally block settled; its rejection rejects
\* testRedditAPI and is printed by `.catch(console.error)`.
FinallyCleanupSettled(p) ==
    /\ caller.pc = "finallyCleanup"
    /\ Settled(p)
    /\ caller' = [caller EXCEPT
           !.pc = IF call[p].pc = "resolved" THEN "returned" ELSE "rejected"]
    /\ UNCHANGED <<now, browser, page, tokenInfo, launched, openBrowsers,
                   pageBrowser, setupPages, issued, call>>

\* A self-text cut one character early: 300 characters count as too long.
SelfTextShownFrom300(selftext) ==
    IF Len(selftext) >= 300
    THEN SubSeq(selftext, 1, 300) \o "..."
    ELSE selftext

\* The text of the self-text paragraph of a card.
SelfTextShown(selftext) ==
    IF Len(selftext) > 300
    THEN SubSeq(selftext, 1, 300) \o "..."
    ELSE selftext

\* The card of one post: its key, whether it has a self-text paragraph
\* (`post.data.selftext && ...`), and the text of the paragraph.
Card(post) ==
    [ key       |-> post.data.id,
      paragraph |-> post.data.selftext # "",
      text      |-> IF post.data.selftext # "" THEN SelfTextShown(post.data.selftext)
                    ELSE "" ]

\* posts.map(post => <Card ...>)
Cards(posts) == [i \in 1..Len(posts) |-> Card(posts[i])]

\* BangladeshSubredditPage resumes with the posts and renders a card each.
BangladeshSubredditPage ==
    /\ caller.kind = "page"
    /\ caller.pc = "returned"
    /\ caller' = [caller EXCEPT !.pc = "rendered", !.cards = Cards(caller.result)]
    /\ UNCHANGED <<now, browser, page, tokenInfo, launched, openBrowsers,
                   pageBrowser, setupPages, issued, call>>

----------------------------------------------------------------------------
(* Time and the specifications *)

ClockTick ==
    /\ now < MaxTicks * Tick
    /\ now' = now + Tick
    /\ UNCHANGED <<browser, page, tokenInfo, launched, openBrowsers, pageBrowser,
                   setupPages, issued, call, caller>>

\* The steps of the instance but for the load of the API XHR.
InstanceStep(p) ==
    \/ Launch(p) \/ LaunchFails(p)
    \/ NewPage(p) \/ NewPageFails(p)
    \/ SetupPage(p) \/ SetupPageFails(p)
    \/ InitReturn(p) \/ Goto(p)
    \/ TokenLoad(p) \/ TokenError(p) \/ TokenReturn(p)
    \/ EnsureReturn(p)
    \/ RequestError(p) \/ EvaluateTimeout(p)
    \/ Close(p) \/ CloseFails(p)

Step(p) == InstanceStep(p) \/ RequestLoad(p)

\* One caller that awaits each call before it makes the next.
Next ==
    \/ \E p \in SerialProcs : GetRecentPosts(p) \/ GetUserInfo(p) \/ Cleanup(p) \/ Step(p)
    \/ ClockTick

Spec == Init /\ [][Next]_vars

\* The serial caller without the clock.  Every await of a call is on a
\* promise of puppeteer or of the page: the event loop resumes the call when
\* the promise settles, every XHR fires load or error, and no step of a call
\* waits for another call, so a pending call's next step is taken (weak
\* fairness on its steps).
LiveNext ==
    \E p \in SerialProcs : GetRecentPosts(p) \/ GetUserInfo(p) \/ Cleanup(p) \/ Step(p)

LiveSpec ==
    Init /\ [][LiveNext]_vars /\ \A p \in SerialProcs : WF_vars(Step(p))

\* getRecentPosts applied to every subreddit and every options object.
ListingNext == \E p \in SerialProcs : GetRecentPostsOf(p, Subreddits, AllOptions)

ListingSpec == Init /\ [][ListingNext]_vars

\* Two callers that do not wait for each other: each calls getRecentPosts
\* once and, when its call has settled, cleanup.
\* The continuation of an await whose promise has settled runs, with every
\* continuation it resolves in turn, before the event loop delivers the next
\* result or runs other code: while another call is in such a chain (between
\* the result of the token exchange and the next await on the browser), p
\* takes no step.
RunToCompletion(p) ==
    \A q \in Procs \ {p} : call[q].pc \notin {"tokenReturn", "ensureReturn", "initReturn"}

OverlapCall(p) == RunToCompletion(p) /\ call[p].pc = "idle" /\ GetRecentPosts(p)

OverlapCleanup(p) ==
    RunToCompletion(p) /\ call[p].entry = "getRecentPosts" /\ Settled(p) /\ Cleanup(p)

OverlapStep(p) ==
    \/ RunToCompletion(p) /\ Launch(p)
    \/ RunToCompletion(p) /\ LaunchFails(p)
    \/ RunToCompletion(p) /\ NewPage(p)
    \/ RunToCompletion(p) /\ NewPageFails(p)
    \/ RunToCompletion(p) /\ SetupPage(p)
    \/ RunToCompletion(p) /\ SetupPageFails(p)
    \/ RunToCompletion(p) /\ InitReturn(p)
    \/ RunToCompletion(p) /\ Goto(p)
    \/ RunToCompletion(p) /\ TokenLoad(p)
    \/ RunToCompletion(p) /\ TokenError(p)
    \/ RunToCompletion(p) /\ TokenReturn(p)
    \/ RunToCompletion(p) /\ EnsureReturn(p)
    \/ RunToCompletion(p) /\ RequestLoad(p)
    \/ RunToCompletion(p) /\ RequestError(p)
    \/ RunToCompletion(p) /\ EvaluateTimeout(p)
    \/ RunToCompletion(p) /\ Close(p)
    \/ RunToCompletion(p) /\ CloseFails(p)

OverlapNext == \E p \in Procs : OverlapCall(p) \/ OverlapCleanup(p) \/ OverlapStep(p)

OverlapSpec == Init /\ [][OverlapNext]_vars

\* Runs of the page's getRedditPosts and of the test script, one after the
\* other, each on an instance of its own.
CallerNext ==
    \/ GetRedditPosts
    \/ TestRedditAPI
    \/ \E p \in SerialProcs :
           \/ CallerGetRecentPosts(p)
           \/ GetRecentPostsSettled(p)
           \/ TryCleanupSettled(p)
           \/ CatchCleanupSettled(p)
           \/ FinallyCleanupSettled(p)
           \/ InstanceStep(p)
           \/ ListingLoad(p)
    \/ BangladeshSubredditPage

CallerSpec == Init /\ [][CallerNext]_vars

\* Self-texts of 0, 1, 299, 300, 301 and 600 characters, the last character
\* of each differing from the others.
RECURSIVE Repeat(_, _)
Repeat(s, n) ==
    IF n = 0 THEN ""
    ELSE IF n % 2 = 0 THEN LET half == Repeat(s, n \div 2) IN half \o half
    ELSE s \o Repeat(s, n - 1)

TextOfLength(n) == IF n = 0 THEN "" ELSE Repeat("a", n - 1) \o "z"

SelfTextLengths == {0, 1, 299, 300, 301, 600}

RenderedPosts == {Post(id, TextOfLength(n)) : id \in {"p1", "p2"}, n \in SelfTextLengths}

\* The page rendering every list of posts getRedditPosts may have returned.
RenderInit ==
    /\ now = 0
    /\ browser = NoBrowser
    /\ page = NoPage
    /\ tokenInfo = NoToken
    /\ launched = 0
    /\ openBrowsers = {}
    /\ pageBrowser = <<>>
    /\ setupPages = {}
    /\ issued = 0
    /\ call = [p \in Procs |-> IdleCall]
    /\ \E posts \in ListsOf(RenderedPosts, MaxPosts) :
           caller = [IdleCaller EXCEPT !.pc = "returned", !.kind = "page",
                                      !.result = posts, !.invocations = 1]

RenderNext == BangladeshSubredditPage

RenderSpec == RenderInit /\ [][RenderNext]_vars

----------------------------------------------------------------------------
(* Properties *)

MakeRequestCall(p) == call[p].entry \in {"getRecentPosts", "getUserInfo"}

\* C1: whenever makeRequest issues its API request, the cached token's
\* expiresAt is strictly greater than the time ensureValidToken sampled in
\* that call plus the refresh buffer.
C1_RequestTokenOutsideBuffer ==
    \A p \in Procs :
        (MakeRequestCall(p) /\ call[p].requests > 0) =>
            /\ call[p].sentExpiry # NaN
            /\ call[p].sentExpiry > call[p].sampled + TOKEN_REFRESH_BUFFER

Is2xx(status) == status \in 200..299

\* The cached token expires in under the buffer window: expiresAt - now < 1 hour.
StaleAtSample(c) ==
    /\ ~c.cached.null
    /\ c.cached.expiresAt # NaN
    /\ c.cached.expiresAt - c.sampled < TOKEN_REFRESH_BUFFER

\* The cached token is still outside the buffer window.
ValidAtSample(c) ==
    /\ ~c.cached.null
    /\ c.cached.expiresAt # NaN
    /\ c.sampled + TOKEN_REFRESH_BUFFER < c.cached.expiresAt

\* C2: a makeRequest call that finds the cached token expiring within the
\* buffer window always takes the token exchange first and sends at most one
\* token request; when it sends its API request exactly one token exchange
\* has been sent and has completed, and the API request carries the token
\* that exchange returned.
C2_StaleTokenOneExchange ==
    \A p \in Procs :
        (MakeRequestCall(p) /\ StaleAtSample(call[p])) =>
            /\ call[p].exchanges <= 1
            /\ call[p].exchanges = 0 =>
                   (call[p].ctx = "token" /\ call[p].requests = 0
                       /\ call[p].pc # "resolved")
            /\ call[p].pc = "resolved" => call[p].requests = 1
            /\ call[p].requests > 0 =>
                   /\ call[p].exchanges = 1
                   /\ Is2xx(call[p].tokenResp.status)
                   /\ call[p].fresh # call[p].cached
                   /\ call[p].sentToken = call[p].fresh.accessToken

C2_Witness ==
    \E p \in Procs :
        /\ MakeRequestCall(p) /\ StaleAtSample(call[p])
        /\ call[p].exchanges = 1 /\ call[p].requests = 1
        /\ call[p].pc = "resolved"

\* C3: a getRecentPosts call that follows an earlier call and finds the token
\* that call cached still outside the buffer window (no expiry in between)
\* sends no token request and sends its API request with the cached token.
C3_TokenReuse ==
    \A p \in Procs :
        (call[p].entry = "getRecentPosts" /\ ValidAtSample(call[p])) =>
            /\ call[p].exchanges = 0
            /\ call[p].requests > 0 => call[p].sentToken = call[p].cached.accessToken
            /\ tokenInfo = call[p].cached

C3_Witness ==
    \E p \in Procs :
        /\ call[p].entry = "getRecentPosts" /\ ValidAtSample(call[p])
        /\ call[p].exchanges = 0 /\ call[p].requests = 1
        /\ call[p].pc = "resolved"

OpenPages == {i \in 1..Len(pageBrowser) : pageBrowser[i] \in openBrowsers}

\* C4: in serial use at most one browser and one page of the instance are
\* open, each of them the one the instance holds, and no browser is launched
\* and no page created while one is held.
C4_OneBrowserOnePage ==
    /\ [](/\ Cardinality(openBrowsers) <= 1
          /\ Cardinality(OpenPages) <= 1
          /\ openBrowsers \subseteq {browser}
          /\ OpenPages \subseteq {page})
    /\ [][/\ launched' # launched => browser = NoBrowser
          /\ pageBrowser' # pageBrowser => page = NoPage]_vars

C4_Witness ==
    \E p \in Procs :
        /\ MakeRequestCall(p)
        /\ call[p].launches = 0 /\ call[p].newPages = 0
        /\ call[p].requests = 1 /\ call[p].evalPage = page
        /\ PageAlive(page)
        /\ launched = 2

\* C5: once a cleanup that found a browser has resolved, the browser is
\* closed, both references are null and no browser of the instance is open.
C5_CleanupReleases ==
    \A p \in Procs :
        (call[p].entry = "cleanup" /\ call[p].closing # NoBrowser
            /\ call[p].pc = "resolved") =>
            /\ browser = NoBrowser
            /\ page = NoPage
            /\ call[p].closing \notin openBrowsers
            /\ openBrowsers = {}

C5_Witness ==
    \E p \in Procs :
        /\ call[p].entry = "cleanup" /\ call[p].closing # NoBrowser
        /\ call[p].pc = "resolved"
        /\ Len(pageBrowser) > 0

\* C6: the makeRequest call that follows a cleanup launches a new browser
\* and creates a new page before it sends any request, and does not fail on
\* a closed browser or page.
C6_ReinitAfterCleanup ==
    \A p \in Procs :
        (MakeRequestCall(p) /\ call[p].afterCleanup) =>
            /\ call[p].failure # "closed"
            /\ (call[p].exchanges + call[p].requests > 0) =>
                   (call[p].launches = 1 /\ call[p].newPages = 1)

HttpErrorMessage(response) ==
    "HTTP " \o NumberToString(response.status) \o ": " \o response.body

\* C7 as stated: makeRequest resolves exactly when the response status is in
\* 200..299, and rejects with the status code and the body text in the
\* message for every other status.
C7_ResolvesExactlyOn2xx ==
    \A p \in Procs :
        (MakeRequestCall(p) /\ call[p].response # NoResponse) =>
            /\ call[p].pc = "resolved" <=> Is2xx(call[p].response.status)
            /\ ~Is2xx(call[p].response.status) =>
                   /\ call[p].pc = "rejected"
                   /\ Contains(call[p].message, NumberToString(call[p].response.status))
                   /\ Contains(call[p].message, call[p].response.body)

\* C7 amended: makeRequest resolves, with the parsed body, exactly when the
\* response status is in 200..299 and the body is valid JSON; for every
\* other status it rejects with the status code and the body text in the
\* message.
C7_ResolvesOn2xxJson ==
    \A p \in Procs :
        (MakeRequestCall(p) /\ call[p].response # NoResponse) =>
            /\ call[p].pc = "resolved" <=>
                   (Is2xx(call[p].response.status) /\ JSONParse(call[p].response.body).ok)
            /\ call[p].pc = "resolved" =>
                   call[p].value = JSONParse(call[p].response.body).value
            /\ ~Is2xx(call[p].response.status) =>
                   /\ call[p].pc = "rejected"
                   /\ Contains(call[p].message, NumberToString(call[p].response.status))
                   /\ Contains(call[p].message, call[p].response.body)

C7_Witness ==
    \E p \in Procs :
        /\ MakeRequestCall(p) /\ call[p].pc = "rejected"
        /\ call[p].response = [status |-> 300, body |-> ListingBody]
        /\ call[p].message = "HTTP 300: {\"kind\":\"Listing\"}"

\* C8: every failure kind (network error, non-2xx response, JSON parse error
\* of the body) makes the token exchange or makeRequest reject.
C8_EveryFailureRejects ==
    \A p \in Procs :
        (MakeRequestCall(p) /\ call[p].failure \in {"network", "http", "parse"}) =>
            call[p].pc = "rejected"

\* The Error a failed token exchange rejects with.
TokenExchangeError(c) ==
    CASE c.failure = "network" -> OnError.message
      [] c.failure = "http" -> HttpErrorMessage(c.tokenResp)
      [] c.failure = "parse" -> "Runtime.callFunctionOn timed out"
      [] OTHER -> ""

LimitOf(c) == IF "limit" \in DOMAIN c.options THEN c.options.limit ELSE 25
SortOf(c) == IF "sort" \in DOMAIN c.options THEN c.options.sort ELSE "hot"
TimeOf(c) == IF "time" \in DOMAIN c.options THEN c.options.time ELSE "day"

\* C10 as stated: the endpoint getRecentPosts hands to makeRequest is
\* /r/<subreddit>/<sort>.json with limit=<limit> and t=<time> in the query,
\* each option at its supplied value or its default.
C10_ListingDefaults ==
    \A p \in Procs :
        call[p].entry = "getRecentPosts" =>
            StartsWith(call[p].endpoint,
                "/r/" \o call[p].subreddit \o "/" \o SortOf(call[p]) \o ".json?"
                    \o "limit=" \o NumberToString(LimitOf(call[p]))
                    \o "&t=" \o TimeOf(call[p]))

\* C10 amended: as stated for a non-empty subreddit; for the empty
\* subreddit (the parameter's default) the path is /<sort>.json.
C10_ListingDefaultsBySubreddit ==
    \A p \in Procs :
        call[p].entry = "getRecentPosts" =>
            StartsWith(call[p].endpoint,
                (IF call[p].subreddit # ""
                 THEN "/r/" \o call[p].subreddit \o "/" \o SortOf(call[p]) \o ".json?"
                 ELSE "/" \o SortOf(call[p]) \o ".json?")
                    \o "limit=" \o NumberToString(LimitOf(call[p]))
                    \o "&t=" \o TimeOf(call[p]))

C10_Witness ==
    \E p \in Procs :
        /\ call[p].entry = "getRecentPosts"
        /\ call[p].subreddit = ""
        /\ call[p].options = [limit |-> 0, time |-> "week"]
        /\ call[p].endpoint = "/hot.json?limit=0&t=week"

RECURSIVE SplitOn(_, _)
SplitOn(s, ch) ==
    IF IndexOf(s, ch) = 0 THEN <<s>>
    ELSE <<Before(s, ch)>> \o SplitOn(After(s, ch), ch)

RECURSIVE FormUrlDecode(_)
\* What a server reads back from an application/x-www-form-urlencoded text.
FormUrlDecode(s) ==
    IF s = "" THEN ""
    ELSE IF SubSeq(s, 1, 1) = "+" THEN " " \o FormUrlDecode(SubSeq(s, 2, Len(s)))
    ELSE IF Len(s) >= 3 /\ SubSeq(s, 1, 3) = "%26" THEN "&" \o FormUrlDecode(SubSeq(s, 4, Len(s)))
    ELSE IF Len(s) >= 3 /\ SubSeq(s, 1, 3) = "%3D" THEN "=" \o FormUrlDecode(SubSeq(s, 4, Len(s)))
    ELSE SubSeq(s, 1, 1) \o FormUrlDecode(SubSeq(s, 2, Len(s)))

\* The parameters a server reads from the query string of an endpoint, as
\* <<name, value>> pairs in their order.
ParamsRead(endpoint) ==
    LET parts == SplitOn(After(endpoint, "?"), "&")
    IN  [i \in 1..Len(parts) |->
            <<FormUrlDecode(Before(parts[i], "=")), FormUrlDecode(After(parts[i], "="))>>]

\* The caller provided an after cursor.
AfterGiven(c) == "after" \in DOMAIN c.options /\ c.options.after # ""

\* C11: the endpoint of a getRecentPosts call is determined by the subreddit,
\* the limit, sort and time values (supplied or defaulted) and the after
\* cursor; the parameters read from its query string are exactly limit and t
\* with those values, followed by after with the cursor exactly when the
\* caller provided one, and nothing else.
C11_ExactQuery ==
    \A p \in Procs :
        call[p].entry = "getRecentPosts" =>
            /\ Before(call[p].endpoint, "?") =
                   (IF call[p].subreddit # "" THEN "/r/" \o call[p].subreddit ELSE "")
                       \o "/" \o SortOf(call[p]) \o ".json"
            /\ ParamsRead(call[p].endpoint) =
                   << <<"limit", NumberToString(LimitOf(call[p]))>>,
                      <<"t", TimeOf(call[p])>> >>
                   \o (IF AfterGiven(call[p])
                       THEN << <<"after", call[p].options.after>> >> ELSE <<>>)
            /\ (\E i \in 1..Len(ParamsRead(call[p].endpoint)) :
                    ParamsRead(call[p].endpoint)[i][1] = "after") <=> AfterGiven(call[p])

C11_Witness ==
    \E p \in Procs :
        /\ call[p].entry = "getRecentPosts"
        /\ call[p].subreddit = "Bangladesh"
        /\ call[p].options = [after |-> "a b&c=d"]
        /\ call[p].endpoint = "/r/Bangladesh/hot.json?limit=25&t=day&after=a+b%26c%3Dd"

\* The browsers the instance of the running caller has launched.
InstanceBrowsers == (caller.base + 1)..launched

\* C12: when a caller that constructed an instance has finished, whether
\* getRecentPosts resolved or rejected, cleanup has been invoked on the
\* instance and no browser the instance launched is still open.
C12_CleanupBeforeFinish ==
    Finished =>
        /\ caller.outcome \in {"resolved", "rejected"}
        /\ caller.cleanups >= 1
        /\ InstanceBrowsers \cap openBrowsers = {}

\* C13: getRedditPosts never rejects, and when fetching the listing failed
\* (getRecentPosts rejected, the answer held no list of posts, or releasing
\* the browser failed) it returns the empty list.
C13_PageNeverRejects ==
    (caller.kind = "page" /\ caller.pc # "idle") =>
        /\ caller.pc # "rejected"
        /\ (caller.pc \in {"returned", "rendered"}
               /\ (caller.outcome = "rejected" \/ ~HasChildren(caller.posts))) =>
               caller.result = <<>>

\* C14: when the listing endpoint answered with N posts, getRedditPosts
\* returns exactly those posts in their order, and the page renders one
\* card for each of them in the same order.
C14_PostsInOrder ==
    (caller.kind = "page" /\ Finished /\ caller.outcome = "resolved"
        /\ HasChildren(caller.posts)) =>
        /\ caller.pc # "rejected"
        /\ caller.result = caller.posts.data.children
        /\ caller.pc = "rendered" =>
               /\ Len(caller.cards) = Len(caller.posts.data.children)
               /\ \A i \in 1..Len(caller.cards) :
                      caller.cards[i].key = caller.posts.data.children[i].data.id

\* C15: the card of a post with empty self-text has no self-text paragraph;
\* the paragraph of any other post shows the whole self-text when it has at
\* most 300 characters, and its first 300 characters followed by "..." when
\* it has more.
C15_SelfTextTruncated ==
    caller.pc = "rendered" =>
        /\ Len(caller.cards) = Len(caller.result)
        /\ \A i \in 1..Len(caller.cards) :
               LET selftext == caller.result[i].data.selftext
                   card == caller.cards[i]
               IN  /\ card.paragraph <=> selftext # ""
                   /\ (selftext # "" /\ Len(selftext) <= 300) => card.text = selftext
                   /\ Len(selftext) > 300 =>
                          /\ Len(card.text) = 303
                          /\ SubSeq(card.text, 1, 300) = SubSeq(selftext, 1, 300)
                          /\ SubSeq(card.text, 301, 303) = "..."

C15_Witness ==
    /\ caller.pc = "rendered"
    /\ Len(caller.cards) = 2
    /\ Len(caller.result[1].data.selftext) = 300
    /\ caller.cards[1].text = caller.result[1].data.selftext
    /\ Len(caller.result[2].data.selftext) = 301
    /\ caller.cards[2].text = Repeat("a", 300) \o "..."

\* C16: within a makeRequest call the token step comes first, then the
\* navigation to the blank document, then the script with the API request.
\* The API request is issued only as the call's own navigation for the
\* request completes; that navigation starts only after ensureValidToken
\* returned, which it does only with a cached token outside the buffer or
\* after its exchange loaded and the new token was stored; a token request
\* is issued only as a navigation completes and before any API request.
C16_StepOrder ==
    /\ [](\A p \in Procs :
            (MakeRequestCall(p) /\ call[p].requests > 0) =>
                /\ call[p].ctx = "request"
                /\ call[p].exchanges > 0 =>
                       /\ call[p].tokenResp # NoResponse
                       /\ call[p].accessToken = call[p].fresh.accessToken)
    /\ [][\A p \in Procs :
            /\ call'[p].requests > call[p].requests =>
                   (call[p].pc = "goto" /\ call[p].ctx = "request")
            /\ call'[p].exchanges > call[p].exchanges =>
                   (call[p].pc = "goto" /\ call[p].ctx = "token"
                       /\ call[p].requests = 0)
            /\ (call'[p].ctx = "request" /\ call[p].ctx # "request") =>
                   call[p].pc = "ensureReturn"
            /\ (call'[p].pc = "goto" /\ call[p].pc # "goto") =>
                   call[p].pc = "initReturn"
            /\ (call'[p].pc = "ensureReturn" /\ call[p].pc # "ensureReturn") =>
                   \/ call[p].pc = "tokenReturn" /\ tokenInfo' = call[p].fresh
                   \/ NotRunning(p) /\ ~NeedsRefresh(tokenInfo, now)
          ]_vars

C16_Witness ==
    \E p \in Procs :
        /\ MakeRequestCall(p) /\ call[p].cached.null
        /\ call[p].exchanges = 1 /\ call[p].requests = 1
        /\ call[p].pc = "requestXhr"

\* `now + 1 hour >= expiresAt` as the claim states it, false for a NaN expiry.
RefreshDue(c) ==
    c.cached.null
        \/ (c.cached.expiresAt # NaN /\ c.sampled + 3600000 >= c.cached.expiresAt)

\* The call has started getNewAccessToken.
ExchangeStarted(c) == c.ctx = "token" \/ c.exchanges > 0

\* C18: ensureValidToken starts a token exchange exactly when no token is
\* cached or now + 1 hour >= the cached expiresAt; otherwise it returns the
\* cached access token, sends no token request, leaves the cached token in
\* place, and has launched no browser and created no page when it returns.
C18_RefreshCondition ==
    \A p \in Procs :
        MakeRequestCall(p) =>
            /\ ExchangeStarted(call[p]) <=> RefreshDue(call[p])
            /\ ~RefreshDue(call[p]) =>
                   /\ call[p].exchanges = 0
                   /\ call[p].accessToken = call[p].cached.accessToken
                   /\ tokenInfo = call[p].cached
                   /\ call[p].pc = "ensureReturn" =>
                          (call[p].launches = 0 /\ call[p].newPages = 0
                              /\ call[p].lp = NoPage)

C18_Witness ==
    \E p \in Procs :
        /\ MakeRequestCall(p) /\ ~call[p].cached.null
        /\ call[p].sampled > 0
        /\ call[p].sampled + 3600000 = call[p].cached.expiresAt
        /\ call[p].exchanges = 1

\* The token response carries an access token and a lifetime.
Granted(c) ==
    /\ Is2xx(c.tokenResp.status)
    /\ LET parsed == JSONParse(c.tokenResp.body)
       IN  /\ parsed.ok
           /\ "access_token" \in DOMAIN parsed.value
           /\ "expires_in" \in DOMAIN parsed.value

\* C19: once ensureValidToken has stored the result of a successful token
\* exchange, the cached accessToken is the access_token of the response and
\* the cached expiresAt is the time the response came back plus expires_in
\* times 1000.
C19_TokenInfoFromResponse ==
    \A p \in Procs :
        (MakeRequestCall(p) /\ call[p].exchanges = 1
            /\ (call[p].pc = "ensureReturn" \/ call[p].ctx = "request")
            /\ Granted(call[p])) =>
            LET response == JSONParse(call[p].tokenResp.body).value
            IN  /\ ~tokenInfo.null
                /\ tokenInfo.accessToken = response.access_token
                /\ tokenInfo.expiresAt = call[p].receivedAt + (response.expires_in * 1000)

C19_Witness ==
    \E p \in Procs :
        /\ MakeRequestCall(p) /\ call[p].exchanges = 1
        /\ call[p].pc = "resolved"
        /\ Granted(call[p])
        /\ call[p].receivedAt = Tick
        /\ call[p].sampled = 0
        /\ tokenInfo.expiresAt = Tick + 7200000

IssuedTokens == {AccessToken(n) : n \in 1..issued}

\* C20: in sequential use the bearer token of an API request is the
\* accessToken of the cached TokenInfo, which is the token the call's own
\* exchange returned or else the cached token it found; a token the endpoint
\* issued earlier than the cached one is never sent.
C20_SingleLiveToken ==
    \A p \in Procs :
        (MakeRequestCall(p) /\ call[p].requests > 0) =>
            /\ call[p].sentToken = tokenInfo.accessToken
            /\ call[p].exchanges = 0 => call[p].sentToken = call[p].cached.accessToken
            /\ call[p].exchanges > 0 =>
                   /\ call[p].sentToken = call[p].fresh.accessToken
                   /\ call[p].sentToken \in IssuedTokens =>
                          call[p].sentToken # call[p].cached.accessToken
            /\ call[p].sentToken \in IssuedTokens =>
                   call[p].sentToken = AccessToken(issued)

C20_Witness ==
    \E p \in Procs :
        /\ MakeRequestCall(p) /\ call[p].requests = 1
        /\ call[p].cached.accessToken = AccessToken(1)
        /\ call[p].sentToken = AccessToken(2)
        /\ tokenInfo.accessToken = AccessToken(2)

\* Browser b runs, the instance does not hold it and no cleanup is closing it.
Orphan(b) ==
    /\ b \in openBrowsers
    /\ browser # b
    /\ \A p \in Procs : ~(call[p].pc = "close" /\ call[p].closing = b)

\* C17: when calls on one instance overlap, a launch that resolves while the
\* instance already holds a running browser (both calls saw the browser
\* missing) leaves the browser held before unreferenced, and a running
\* browser the instance no longer references stays open whatever is called
\* afterwards: no cleanup closes it.  A call whose script is stopped by
\* another call's navigation shares its page with that call.
C17_OverlapLeaksBrowser ==
    /\ [](\A p \in Procs :
            call[p].failure = "navigated" =>
                (call[p].pc = "rejected" /\ call[p].lp # NoPage))
    /\ [][/\ \A b \in 1..launched : Orphan(b) => Orphan(b)'
          /\ (launched' > launched /\ browser # NoBrowser
                  /\ browser \in openBrowsers
                  /\ \A p \in Procs : call[p].pc # "close") =>
                  \E b \in 1..launched : b = browser /\ Orphan(b)'
          /\ \A p \in Procs :
                 (call'[p].failure = "navigated" /\ call[p].failure # "navigated") =>
                     \E q \in Procs \ {p} :
                         /\ call[q].pc = "goto" /\ call[q].lp = call[p].lp
                         /\ call[p].pc \in {"tokenXhr", "requestXhr", "hung"}
         ]_vars

\* Both calls launched a browser, one call was cut off by the navigation of
\* the other on the page they share, and after the cleanup that closed the
\* browser the instance held the other browser is still open.
C17_Witness ==
    \E p, q \in Procs :
        /\ p # q
        /\ MakeRequestCall(p) /\ call[p].failure = "navigated" /\ call[p].launches = 1
        /\ call[q].entry = "cleanup" /\ call[q].pc = "resolved"
        /\ call[q].closing # NoBrowser
        /\ browser = NoBrowser
        /\ \E b \in 1..launched : Orphan(b) /\ b # call[q].closing

\* C21: every run of getRedditPosts starts on an instance without browser,
\* page and token, and a run whose getRecentPosts call has sent the listing
\* request has launched exactly one browser, none of an earlier run, and
\* has performed exactly one token exchange, whose token it sent.
C21_FreshInstancePerInvocation ==
    caller.kind = "page" =>
        /\ caller.pc = "constructed" =>
               (browser = NoBrowser /\ page = NoPage /\ tokenInfo = NoToken)
        /\ \A p \in Procs :
               (caller.pc = "get" /\ call[p].entry = "getRecentPosts"
                   /\ call[p].requests > 0) =>
                   /\ call[p].cached.null
                   /\ call[p].launches = 1
                   /\ launched = caller.base + 1
                   /\ pageBrowser[call[p].evalPage] = launched
                   /\ call[p].exchanges = 1
                   /\ call[p].sentToken = call[p].fresh.accessToken

C21_Witness ==
    \E p \in Procs :
        /\ caller.kind = "page" /\ caller.invocations = 2 /\ caller.pc = "get"
        /\ caller.base = 1
        /\ call[p].entry = "getRecentPosts" /\ call[p].requests = 1
        /\ call[p].launches = 1 /\ call[p].exchanges = 1
        /\ call[p].sentToken = AccessToken(2)

\* The names of the required variables that are unset or empty.
MissingNames(env) == {v \in EnvNames : env[v] # "set"}

\* C22: a run of testRedditAPI ends at process.exit(1) exactly when one of
\* the four variables is unset or empty; it has then printed the names of
\* the missing variables and of no other, no instance was constructed, no
\* browser was launched and no call was made in that run.
C22_ExitOnMissingEnv ==
    (caller.kind = "script" /\ caller.pc # "idle") =>
        /\ caller.pc = "exited" <=> MissingNames(caller.env) # {}
        /\ caller.pc = "exited" =>
               /\ caller.exitCode = 1
               /\ ~caller.constructed
               /\ \A v \in EnvNames :
                      Contains(caller.reported, v) <=> v \in MissingNames(caller.env)
               /\ launched = caller.base
               /\ browser = NoBrowser
               /\ \A p \in Procs : call[p] = IdleCall

C22_Witness ==
    /\ caller.kind = "script" /\ caller.pc = "exited" /\ caller.exitCode = 1
    /\ caller.env = [AllSet EXCEPT !["REDDIT_SECRET"] = "empty",
                                   !["REDDIT_PASSWORD"] = "unset"]
    /\ caller.reported =
           "Missing required environment variables: REDDIT_SECRET, REDDIT_PASSWORD"

\* A step of cleanup taken by call p.
CleanupStep(p) == CleanupEnter(p) \/ Close(p) \/ CloseFails(p)

\* C23: no step of cleanup changes tokenInfo, and the makeRequest call that
\* follows a cleanup and finds the cached token outside the refresh buffer
\* performs no token exchange, and when it sends its request it has launched
\* a browser, created a page and sends the cached token.
C23_TokenKeptAcrossCleanup ==
    /\ [][(\E p \in Procs : CleanupStep(p)) => tokenInfo' = tokenInfo]_vars
    /\ [](\A p \in Procs :
            (MakeRequestCall(p) /\ call[p].afterCleanup /\ ValidAtSample(call[p])) =>
                /\ call[p].exchanges = 0
                /\ call[p].requests > 0 =>
                       /\ call[p].launches = 1 /\ call[p].newPages = 1
                       /\ call[p].sentToken = call[p].cached.accessToken)

\* A TokenInfo with both of its fields.
WholeToken(t) == ~t.null => (t.accessToken # "undefined" /\ t.expiresAt # NaN)

\* C24: tokenInfo is assigned only when ensureValidToken resumes from a
\* token exchange whose response granted a token, so it never holds a
\* token without an access token or without an expiry, and a call that
\* finds no whole token cached starts a token exchange.
C24_FailedExchangeKeepsToken ==
    /\ [][tokenInfo' # tokenInfo =>
              \E p \in Procs : call[p].pc = "tokenReturn" /\ Granted(call[p])]_vars
    /\ [](WholeToken(tokenInfo))
    /\ [](\A p \in Procs :
            (MakeRequestCall(p) /\ ~WholeToken(call[p].cached)) =>
                ExchangeStarted(call[p]))

\* A makeRequest call that has been started and has not settled.
Pending(p) == MakeRequestCall(p) /\ ~Settled(p)

\* The token exchange of the call is waiting for its XHR.
TokenPending(p) == MakeRequestCall(p) /\ call[p].pc = "tokenXhr"

C26_RequestsOnlyThroughSetupPages ==
    \A p \in Procs :
        (MakeRequestCall(p) /\ call[p].pc \in {"tokenXhr", "requestXhr"}) =>
            call[p].lp \in setupPages

\* The token exchange of the call has completed with a token: the result has
\* come back and ensureValidToken has stored it.
ExchangeDone(c) ==
    /\ c.exchanges = 1
    /\ c.tokenResp # NoResponse
    /\ Granted(c)
    /\ c.pc # "tokenReturn"

\* C27: a call that finds no token cached starts a token exchange of its
\* own even while the exchange of another call is in flight, and sends the
\* token its own exchange returned; every result of an exchange is stored
\* before the next one arrives, and once both exchanges have completed the
\* two calls hold different tokens and the cached token is the one issued
\* last.
C27_NoExchangeDeduplication ==
    /\ [][\A p \in Procs :
              (call[p].pc = "tokenReturn" /\ call'[p].pc # "tokenReturn") =>
                  tokenInfo' = call[p].fresh]_vars
    /\ [](\A p \in Procs :
            (MakeRequestCall(p) /\ call[p].cached.null) =>
                /\ ExchangeStarted(call[p])
                /\ call[p].requests > 0 =>
                       /\ call[p].exchanges = 1
                       /\ call[p].sentToken = call[p].fresh.accessToken)
    /\ [](\A p, q \in Procs :
            (p # q /\ call[p].pc = "tokenReturn") => call[q].pc # "tokenReturn")
    /\ [](\A p, q \in Procs :
            (p # q /\ MakeRequestCall(p) /\ MakeRequestCall(q)
                /\ call[p].cached.null /\ call[q].cached.null
                /\ ExchangeDone(call[p]) /\ ExchangeDone(call[q])) =>
                /\ call[p].fresh.accessToken # call[q].fresh.accessToken
                /\ tokenInfo.accessToken = AccessToken(issued)
                /\ tokenInfo \in {call[p].fresh, call[q].fresh})

\* Both calls found no token, each has sent its API request with the token
\* of its own exchange, and the cache holds the second token.
C27_Witness ==
    \E p, q \in Procs :
        /\ p # q
        /\ MakeRequestCall(p) /\ MakeRequestCall(q)
        /\ call[p].cached.null /\ call[q].cached.null
        /\ call[p].requests = 1 /\ call[q].requests = 1
        /\ call[p].sentToken = AccessToken(1)
        /\ call[q].sentToken = AccessToken(2)
        /\ tokenInfo.accessToken = AccessToken(2)

\* The step is call p invoking cleanup.
CleanupInvoked(p) ==
    /\ NotRunning(p)
    /\ call'[p] # call[p]
    /\ call'[p].entry = "cleanup"

\* The invoked cleanup calls no close and resolves at once, and the step
\* leaves the instance and the browsers as they were.
CleanupNoOp(p) ==
    /\ call'[p].pc = "resolved"
    /\ call'[p].closing = NoBrowser
    /\ UNCHANGED <<browser, page, tokenInfo, launched, openBrowsers, pageBrowser,
                   setupPages>>

\* C28: a cleanup invoked while the instance holds no browser, and a
\* cleanup invoked right after another cleanup has settled, calls no close,
\* resolves and changes nothing, so that two cleanups in a row close the
\* browser once and end in the state the first one left.
C28_CleanupIdempotent ==
    [][\A p \in Procs :
          /\ (CleanupInvoked(p) /\ browser = NoBrowser) => CleanupNoOp(p)
          /\ (CleanupInvoked(p) /\ call[p].entry = "cleanup" /\ Settled(p)) =>
                 CleanupNoOp(p)]_vars

====
